---- MODULE Spec2Model ----
(***************************************************************************)
(* One-way Master -> Mirror synchronisation (notion_mirror_sync.py).       *)
(*                                                                         *)
(* Representation of Python values:                                        *)
(*   - text (a title) is a sequence of one-character strings, so that      *)
(*     strip() and lower() are computed and not assumed;                   *)
(*   - "str | None" is a sequence of length <= 1: <<>> is None, <<s>> is s;*)
(*   - a page property object is [type |-> t, val |-> sequence]:           *)
(*       title  : val = the rich-text parts (each a text)                  *)
(*       select / status : val = <<>> (None) or <<label>>                  *)
(*       date   : val = <<>> (None) or <<start, end>>                      *)
(*       people : val = sequence of users [name |-> s, id |-> s],          *)
(*                where "" stands for an absent / null entry;              *)
(*   - a page is [id |-> identity, props |-> function on the present       *)
(*     property names]; a missing property is a name outside DOMAIN props; *)
(*   - a payload is a function from property names to fragments            *)
(*     [kind |-> "select" | "multi_select" | "status" | "date" | "title",  *)
(*      val |-> sequence].                                                 *)
(***************************************************************************)
EXTENDS Integers, Sequences, FiniteSets, TLC

\* ------------------------------------------------------------------------
\* Configuration: property names
\* ------------------------------------------------------------------------
PROP_ACTIVITY == "Activity"
PROP_STATUS == "Status"
PROP_START_DATE == "Start Date"
PROP_DUE_DATE == "Due Date"
PROP_PRIORITY == "Priority"
PROP_RAISED_BY == "Raised By"
PROP_ASSIGNED_TO == "Assigned To"

\* stop_after_attempt(5) of the three @retry wrappers
STOP_ATTEMPTS == 5

\* ------------------------------------------------------------------------
\* Bounds of the model
\* ------------------------------------------------------------------------
\* pages in the workspace (Master and Mirror together) when the first run starts
MaxPages == 3
\* records the remote store returns per query response
PageSize == 2

\* ------------------------------------------------------------------------
\* Python helpers
\* ------------------------------------------------------------------------
None == <<>>
Some(x) == <<x>>

\* truthiness of a "str | None"
Truthy(o) == o # <<>> /\ o[1] # ""

EmptyMap == [x \in {} |-> x]

\* dict.update: the entries of e win over those of d
DictUpdate(d, e) ==
    [k \in (DOMAIN d) \cup (DOMAIN e) |-> IF k \in DOMAIN e THEN e[k] ELSE d[k]]

\* d with d[k] = v
DictSet(d, k, v) == [x \in (DOMAIN d) \cup {k} |-> IF x = k THEN v ELSE d[x]]

IsSpace(c) == c = " "

\* str.lower() on one character of the model's alphabet
LowerChar(c) ==
    CASE c = "A" -> "a"
      [] c = "B" -> "b"
      [] OTHER -> c

\* str.lower()
Lower(s) == [j \in 1..Len(s) |-> LowerChar(s[j])]

RECURSIVE LStrip(_)
LStrip(s) == IF s # <<>> /\ IsSpace(Head(s)) THEN LStrip(Tail(s)) ELSE s

RECURSIVE RStrip(_)
RStrip(s) ==
    IF s # <<>> /\ IsSpace(s[Len(s)]) THEN RStrip(SubSeq(s, 1, Len(s) - 1)) ELSE s

\* str.strip()
Strip(s) == RStrip(LStrip(s))

\* "".join(parts)
RECURSIVE Join(_)
Join(parts) == IF parts = <<>> THEN <<>> ELSE Head(parts) \o Join(Tail(parts))

\* ------------------------------------------------------------------------
\* Schema helpers
\* ------------------------------------------------------------------------
ChoiceTypes == {"select", "multi_select", "status"}

\* get_db_schema_types applied to the "properties" of a retrieved database:
\* {name: meta.get("type")}
SchemaTypesOf(dbprops) == [n \in DOMAIN dbprops |-> dbprops[n].type]

\* get_db_schema_options applied to the "properties" of a retrieved database:
\* the non-empty option names of select / multi_select / status properties,
\* the empty set for every other type
SchemaOptionsOf(dbprops) ==
    [n \in DOMAIN dbprops |->
        IF dbprops[n].type \in ChoiceTypes
        THEN {o \in dbprops[n].options : o # ""}
        ELSE {}]

\* ------------------------------------------------------------------------
\* Reading page properties
\* ------------------------------------------------------------------------
\* page.get("properties", {}).get(name): None when the page lacks it
prop_or_none(page, name) ==
    IF name \in DOMAIN page.props THEN Some(page.props[name]) ELSE None

\* the label of a select / status value, None for anything else
read_choice_name(prop) ==
    IF prop = None THEN None
    ELSE IF prop[1].type \in {"select", "status"} THEN prop[1].val
    ELSE None

\* variant of UserLabel: the identifier, whether there is a name or not
UserLabel_IdOnly(u) == u.id

\* u.get("name") or u.get("id")
UserLabel(u) == IF u.name # "" THEN u.name ELSE u.id

RECURSIVE PeopleLabels(_)
PeopleLabels(us) ==
    IF us = <<>> THEN <<>>
    ELSE IF UserLabel(Head(us)) # ""
         THEN <<UserLabel(Head(us))>> \o PeopleLabels(Tail(us))
         ELSE PeopleLabels(Tail(us))

\* `for u in prop.get("people", [])` over a value that is null, not a list:
\* the default [] applies to a missing key only, the loop raises TypeError
read_people_names_Raises(prop) ==
    prop # None /\ prop[1].type = "people" /\ "null" \in DOMAIN prop[1]

\* display names (or ids) of a people property, [] for anything else
read_people_names(prop) ==
    IF prop = None \/ prop[1].type # "people" THEN <<>>
    ELSE PeopleLabels(prop[1].val)

\* variant of get_title_text: the concatenation is not stripped
get_title_text_Unstripped(page, title_prop_name) ==
    IF title_prop_name \in DOMAIN page.props
       /\ page.props[title_prop_name].type = "title"
    THEN Join(page.props[title_prop_name].val)
    ELSE <<>>

\* the stripped concatenation of the title parts; "" unless the property
\* exists and has type "title"
get_title_text(page, title_prop_name) ==
    IF title_prop_name \in DOMAIN page.props
       /\ page.props[title_prop_name].type = "title"
    THEN Strip(Join(page.props[title_prop_name].val))
    ELSE <<>>

\* ------------------------------------------------------------------------
\* Payload fragments
\* ------------------------------------------------------------------------
Frag(k, v) == [kind |-> k, val |-> v]

\* {"select": {"name": n} if n else None} and its two siblings; the result is
\* None (<<>>) for an unsupported Mirror type
coerce_choice_payload(name, mirror_type) ==
    IF mirror_type = "select"
    THEN Some(Frag("select", IF Truthy(name) THEN name ELSE None))
    ELSE IF mirror_type = "multi_select"
    THEN Some(Frag("multi_select", IF Truthy(name) THEN name ELSE <<>>))
    ELSE IF mirror_type = "status"
    THEN Some(Frag("status", IF Truthy(name) THEN name ELSE None))
    ELSE None

\* variant of to_title_property: the text is written lower-cased
to_title_property_Lowered(text) == Frag("title", <<Lower(text)>>)

to_title_property(text) == Frag("title", <<text>>)

\* ------------------------------------------------------------------------
\* extract_sync_properties_from_master, one block of the function at a time.
\* Each block yields the entries it adds to props (a function on at most one
\* name).
\* ------------------------------------------------------------------------
Entry(name, fragOpt) ==
    IF fragOpt = None THEN EmptyMap ELSE [x \in {name} |-> fragOpt[1]]

\* the Status name after STATUS_MAP ("Map first (normalize)")
StatusMapped(master_page, status_map) ==
    LET name == read_choice_name(prop_or_none(master_page, PROP_STATUS))
    IN  IF name # None /\ name[1] \in DOMAIN status_map
        THEN Some(status_map[name[1]])
        ELSE name

StatusAllowed(mirror_allowed) ==
    IF PROP_STATUS \in DOMAIN mirror_allowed THEN mirror_allowed[PROP_STATUS] ELSE {}

\* mt == "status" and name is not None and name not in allowed
StatusInvalid(master_page, types, mirror_allowed, status_map) ==
    LET name == StatusMapped(master_page, status_map)
    IN  /\ types[PROP_STATUS] = "status"
        /\ name # None
        /\ name[1] \notin StatusAllowed(mirror_allowed)

\* variant of FallbackUsable: the fallback is not looked up in allowed
FallbackUsable_Unchecked(mirror_allowed, status_fallback) == Truthy(status_fallback)

\* STATUS_FALLBACK and STATUS_FALLBACK in allowed
FallbackUsable(mirror_allowed, status_fallback) ==
    Truthy(status_fallback) /\ status_fallback[1] \in StatusAllowed(mirror_allowed)

\* the name handed to coerce_choice_payload
StatusFinalName(master_page, types, mirror_allowed, status_map, status_fallback) ==
    IF StatusInvalid(master_page, types, mirror_allowed, status_map)
    THEN IF FallbackUsable(mirror_allowed, status_fallback)
         THEN status_fallback
         ELSE None
    ELSE StatusMapped(master_page, status_map)

\* variant of StatusMissing: every Status name is recorded, valid or not
StatusMissing_AnyName(master_page, types, mirror_allowed, status_map, status_fallback) ==
    IF /\ PROP_STATUS \in DOMAIN types
       /\ StatusMapped(master_page, status_map) # None
    THEN {StatusMapped(master_page, status_map)[1]}
    ELSE {}

\* what the call adds to missing_status_names
StatusMissing(master_page, types, mirror_allowed, status_map, status_fallback) ==
    IF /\ PROP_STATUS \in DOMAIN types
       /\ StatusInvalid(master_page, types, mirror_allowed, status_map)
       /\ ~FallbackUsable(mirror_allowed, status_fallback)
    THEN {StatusMapped(master_page, status_map)[1]}
    ELSE {}

StatusProps(master_page, types, mirror_allowed, status_map, status_fallback) ==
    IF PROP_STATUS \in DOMAIN types
    THEN Entry(PROP_STATUS,
               coerce_choice_payload(
                   StatusFinalName(master_page, types, mirror_allowed,
                                   status_map, status_fallback),
                   types[PROP_STATUS]))
    ELSE EmptyMap

\* START DATE and DUE DATE
DateProps(master_page, types, name) ==
    LET d == prop_or_none(master_page, name)
    IN  IF /\ name \in DOMAIN types
           /\ d # None
           /\ d[1].type = "date"
           /\ types[name] = "date"
        THEN Entry(name, Some(Frag("date", d[1].val)))
        ELSE EmptyMap

\* variant of ChoiceProps: a select fragment unless the Mirror declares a
\* multi_select, also when the Mirror does not declare the property
ChoiceProps_SelectByDefault(master_page, types, name) ==
    LET nm == read_choice_name(prop_or_none(master_page, name))
    IN  IF name \in DOMAIN types /\ types[name] = "multi_select"
        THEN Entry(name, Some(Frag("multi_select", IF Truthy(nm) THEN nm ELSE <<>>)))
        ELSE Entry(name, Some(Frag("select", IF Truthy(nm) THEN nm ELSE None)))

\* PRIORITY and RAISED BY: select or multi_select in the Mirror, else skipped
ChoiceProps(master_page, types, name) ==
    LET nm == read_choice_name(prop_or_none(master_page, name))
    IN  IF name \notin DOMAIN types THEN EmptyMap
        ELSE IF types[name] = "select"
        THEN Entry(name, Some(Frag("select", IF Truthy(nm) THEN nm ELSE None)))
        ELSE IF types[name] = "multi_select"
        THEN Entry(name, Some(Frag("multi_select", IF Truthy(nm) THEN nm ELSE <<>>)))
        ELSE EmptyMap

\* ASSIGNED TO
AssignedProps(master_page, types) ==
    LET names == read_people_names(prop_or_none(master_page, PROP_ASSIGNED_TO))
        first == IF names # <<>> THEN Some(names[1]) ELSE None
    IN  IF PROP_ASSIGNED_TO \notin DOMAIN types THEN EmptyMap
        ELSE IF types[PROP_ASSIGNED_TO] = "multi_select"
        THEN Entry(PROP_ASSIGNED_TO, Some(Frag("multi_select", names)))
        ELSE IF types[PROP_ASSIGNED_TO] = "select"
        THEN Entry(PROP_ASSIGNED_TO,
                   Some(Frag("select", IF Truthy(first) THEN first ELSE None)))
        ELSE EmptyMap

\* the call ends in an exception instead of returning: only the Assigned To
\* block iterates over a value of the page without testing what it is
MapperRaises(master_page, types) ==
    /\ PROP_ASSIGNED_TO \in DOMAIN types
    /\ read_people_names_Raises(prop_or_none(master_page, PROP_ASSIGNED_TO))

\* the props dict the function returns
extract_sync_properties_from_master(master_page, types, mirror_allowed, status_map, status_fallback) ==
    DictUpdate(
      DictUpdate(
        DictUpdate(
          DictUpdate(
            DictUpdate(
              StatusProps(master_page, types, mirror_allowed, status_map, status_fallback),
              DateProps(master_page, types, PROP_START_DATE)),
            DateProps(master_page, types, PROP_DUE_DATE)),
          ChoiceProps(master_page, types, PROP_PRIORITY)),
        ChoiceProps(master_page, types, PROP_RAISED_BY)),
      AssignedProps(master_page, types))

\* ------------------------------------------------------------------------
\* Index of the Mirror pages
\* ------------------------------------------------------------------------
\* variant of IndexFrom: a key keeps the first page indexed under it
RECURSIVE IndexFrom_FirstWins(_, _)
IndexFrom_FirstWins(idx, pages) ==
    IF pages = <<>> THEN idx
    ELSE LET activity == get_title_text(Head(pages), PROP_ACTIVITY)
         IN  IndexFrom_FirstWins(IF activity # <<>> /\ Lower(activity) \notin DOMAIN idx
                                 THEN DictSet(idx, Lower(activity), Head(pages).id)
                                 ELSE idx,
                                 Tail(pages))

\* idx[activity.lower()] = p["id"] for every page with a non-empty title,
\* later pages overwriting earlier ones
RECURSIVE IndexFrom(_, _)
IndexFrom(idx, pages) ==
    IF pages = <<>> THEN idx
    ELSE LET activity == get_title_text(Head(pages), PROP_ACTIVITY)
         IN  IndexFrom(IF activity # <<>>
                       THEN DictSet(idx, Lower(activity), Head(pages).id)
                       ELSE idx,
                       Tail(pages))

build_mirror_index_by_activity(mirror_pages) == IndexFrom(EmptyMap, mirror_pages)

\* ------------------------------------------------------------------------
\* The remote workspace (the collaborator behind notion.databases / pages)
\* ------------------------------------------------------------------------
MASTER_DB == "master"
MIRROR_DB == "mirror"

RECURSIVE Reverse(_)
Reverse(s) == IF s = <<>> THEN <<>> ELSE Reverse(Tail(s)) \o <<Head(s)>>

\* the stored value of a written fragment, and the empty value of a type
StoredProp(frag) == [type |-> frag.kind, val |-> frag.val]
EmptyProp(t) == [type |-> t, val |-> <<>>]

\* the properties of a page written with props in a database declared dbprops
StoredProps(dbprops, props) ==
    [f \in (DOMAIN dbprops) \cup (DOMAIN props) |->
        IF f \in DOMAIN props THEN StoredProp(props[f]) ELSE EmptyProp(dbprops[f].type)]

\* the remote validation of a write: every key is a declared property, the
\* fragment has the declared type, and a status label is a declared option
RemoteAccepts(dbprops, props) ==
    \A f \in DOMAIN props :
        /\ f \in DOMAIN dbprops
        /\ props[f].kind = dbprops[f].type
        /\ (props[f].kind = "status" /\ props[f].val # <<>>)
               => props[f].val[1] \in dbprops[f].options

\* notion.pages.create: a new page at the end of the database
RemoteCreate(st, db, dbprops, props) ==
    [st EXCEPT ![db] =
        Append(@, [id |-> <<db, Len(@) + 1>>, props |-> StoredProps(dbprops, props)])]

UpdatePages(pages, page_id, props) ==
    [j \in 1..Len(pages) |->
        IF pages[j].id = page_id
        THEN [pages[j] EXCEPT !.props = DictUpdate(@, [f \in DOMAIN props |-> StoredProp(props[f])])]
        ELSE pages[j]]

\* notion.pages.update: the page with that identity, in whichever database
RemoteUpdate(st, page_id, props) ==
    [db \in DOMAIN st |-> UpdatePages(st[db], page_id, props)]

PageIds(pages) == {pages[j].id : j \in 1..Len(pages)}

Min(a, b) == IF a < b THEN a ELSE b

\* notion.databases.query: one response for the records listed from offset
QueryResponse(listing, offset) ==
    [results |-> SubSeq(listing, offset + 1, Min(offset + PageSize, Len(listing))),
     has_more |-> offset + PageSize < Len(listing),
     next_cursor |-> offset + PageSize]

\* ------------------------------------------------------------------------
\* Inputs: the Master records, Mirror titles and Mirror schemas of the runs
\* ------------------------------------------------------------------------
TitleProp(parts) == [type |-> "title", val |-> parts]
ChoiceProp(t, name) == [type |-> t, val |-> name]
DateProp(d) == [type |-> "date", val |-> d]
PeopleProp(us) == [type |-> "people", val |-> us]
User(n, i) == [name |-> n, id |-> i]

\* {"type": "people", "people": None}
PeopleNull == [type |-> "people", val |-> <<>>, null |-> TRUE]

\* "Ab", Status (select) Done, everything set
RecAb ==
    [x \in {PROP_ACTIVITY, PROP_STATUS, PROP_START_DATE, PROP_DUE_DATE,
            PROP_PRIORITY, PROP_RAISED_BY, PROP_ASSIGNED_TO} |->
        CASE x = PROP_ACTIVITY -> TitleProp(<< <<"A", "b">> >>)
          [] x = PROP_STATUS -> ChoiceProp("select", Some("Done"))
          [] x = PROP_START_DATE -> DateProp(<<"d1", "d2">>)
          [] x = PROP_DUE_DATE -> DateProp(<<"d2", "">>)
          [] x = PROP_PRIORITY -> ChoiceProp("select", Some("High"))
          [] x = PROP_RAISED_BY -> ChoiceProp("select", Some("Bob"))
          [] x = PROP_ASSIGNED_TO -> PeopleProp(<<User("Ann", "u1"), User("", "u2")>>)]

\* "ab " in two rich-text parts, Status (status) Unknown, no Start Date
\* property, the other values empty
RecAbSpace ==
    [x \in {PROP_ACTIVITY, PROP_STATUS, PROP_DUE_DATE, PROP_PRIORITY,
            PROP_ASSIGNED_TO} |->
        CASE x = PROP_ACTIVITY -> TitleProp(<< <<"a">>, <<"b", " ">> >>)
          [] x = PROP_STATUS -> ChoiceProp("status", Some("Unknown"))
          [] x = PROP_DUE_DATE -> DateProp(None)
          [] x = PROP_PRIORITY -> ChoiceProp("select", None)
          [] x = PROP_ASSIGNED_TO -> PeopleProp(<<>>)]

\* " B", Status (select) Unknown
RecB ==
    [x \in {PROP_ACTIVITY, PROP_STATUS, PROP_START_DATE, PROP_ASSIGNED_TO} |->
        CASE x = PROP_ACTIVITY -> TitleProp(<< <<" ", "B">> >>)
          [] x = PROP_STATUS -> ChoiceProp("select", Some("Unknown"))
          [] x = PROP_START_DATE -> DateProp(<<"d3", "">>)
          [] x = PROP_ASSIGNED_TO -> PeopleProp(<<User("", "u2")>>)]

\* a title of blanks only, Status (select) WIP
RecBlank ==
    [x \in {PROP_ACTIVITY, PROP_STATUS} |->
        CASE x = PROP_ACTIVITY -> TitleProp(<< <<" ", " ">> >>)
          [] x = PROP_STATUS -> ChoiceProp("select", Some("WIP"))]

MasterRecords == {RecAb, RecAbSpace, RecB, RecBlank}

\* the titles of the Mirror pages present before the first run
MirrorTitles == { << <<"A", "B">> >>, << <<"a", "b", " ">> >>, <<>> }

DbProp(t, opts) == [type |-> t, options |-> opts]

\* Status is a status property; every mapped property is declared
SchemaFull ==
    [x \in {PROP_ACTIVITY, PROP_STATUS, PROP_START_DATE, PROP_DUE_DATE,
            PROP_PRIORITY, PROP_RAISED_BY, PROP_ASSIGNED_TO} |->
        CASE x = PROP_ACTIVITY -> DbProp("title", {})
          [] x = PROP_STATUS -> DbProp("status", {"Done", "In Progress"})
          [] x = PROP_START_DATE -> DbProp("date", {})
          [] x = PROP_DUE_DATE -> DbProp("date", {})
          [] x = PROP_PRIORITY -> DbProp("select", {"High"})
          [] x = PROP_RAISED_BY -> DbProp("select", {})
          [] x = PROP_ASSIGNED_TO -> DbProp("multi_select", {"Ann"})]

\* nothing but the title
SchemaTitleOnly == [x \in {PROP_ACTIVITY} |-> DbProp("title", {})]

\* Status is a select; Start Date has another type; no Due Date
SchemaSelect ==
    [x \in {PROP_ACTIVITY, PROP_STATUS, PROP_START_DATE, PROP_PRIORITY,
            PROP_RAISED_BY, PROP_ASSIGNED_TO} |->
        CASE x = PROP_ACTIVITY -> DbProp("title", {})
          [] x = PROP_STATUS -> DbProp("select", {"Done"})
          [] x = PROP_START_DATE -> DbProp("rich_text", {})
          [] x = PROP_PRIORITY -> DbProp("multi_select", {})
          [] x = PROP_RAISED_BY -> DbProp("multi_select", {})
          [] x = PROP_ASSIGNED_TO -> DbProp("select", {})]

\* the title property of the Mirror has another name
SchemaNoActivity ==
    [x \in {"Name", PROP_STATUS} |->
        CASE x = "Name" -> DbProp("title", {})
          [] x = PROP_STATUS -> DbProp("status", {"Done"})]

MirrorSchemas == {SchemaFull, SchemaTitleOnly, SchemaNoActivity}

\* the name of the title property of a database
TitleName(dbprops) == CHOOSE n \in DOMAIN dbprops : dbprops[n].type = "title"

SeqsUpTo(S, n) == UNION {[1..k -> S] : k \in 0..n}

\* a Mirror page that so far holds a title and nothing else
MirrorPage(k, parts, dbprops) ==
    [id |-> <<MIRROR_DB, k>>,
     props |-> [f \in DOMAIN dbprops |->
                  IF f = TitleName(dbprops) THEN TitleProp(parts)
                  ELSE EmptyProp(dbprops[f].type)]]

MasterPage(k, props) == [id |-> <<MASTER_DB, k>>, props |-> props]

\* ------------------------------------------------------------------------
\* State
\* ------------------------------------------------------------------------
VARIABLES
    store,                \* remote: [master |-> pages, mirror |-> pages], oldest first
    schema,               \* remote: the declared properties of the Mirror database
    newestFirst,          \* remote: whether a query lists the newest page first
    STATUS_MAP,           \* configuration: rename table
    STATUS_FALLBACK,      \* configuration: fallback label or None
    pc,                   \* position of main()
    rerun,                \* FALSE in the first run, TRUE in the run that follows it
    master_pages,         \* main: master_pages (while fetching: get_all_pages' pages)
    mirror_pages,         \* main: mirror_pages (while fetching: get_all_pages' pages)
    start_cursor,         \* get_all_pages: start_cursor
    mirror_schema_types,  \* main: mirror_schema_types
    mirror_allowed,       \* main: mirror_allowed
    mirror_index,         \* main: mirror_index
    i,                    \* main: number of master_pages the loop has finished
    created,
    updated,
    skipped,
    missing_status_names, \* the module-level warning set
    call,                 \* the create_page / update_page call in flight
    attempt,              \* tenacity: attempts the call in flight has made
    lastError,            \* outcome of the latest failed attempt, "none" after a success
    failedAt,             \* the position at which an exception left main(), or "none"
    passed,               \* history: the steps of this run that have succeeded
    writes,               \* history: the create_page / update_page calls of this run
    mirrorAfterFirst,     \* history: the Mirror pages when the first run ended
    counted,              \* history: per iteration ended, the counter it incremented
    requests              \* history: per database, the answered queries of get_all_pages

vars == <<store, schema, newestFirst, STATUS_MAP, STATUS_FALLBACK, pc, rerun,
          master_pages, mirror_pages, start_cursor, mirror_schema_types,
          mirror_allowed, mirror_index, i, created, updated, skipped,
          missing_status_names, call, attempt, lastError, failedAt, passed,
          writes, mirrorAfterFirst, counted, requests>>

remoteVars == <<schema, newestFirst>>
configVars == <<STATUS_MAP, STATUS_FALLBACK>>
fetchVars == <<master_pages, mirror_pages, start_cursor, requests>>

\* no query answered yet
NoRequests == [db \in {MASTER_DB, MIRROR_DB} |-> <<>>]
schemaVars == <<mirror_schema_types, mirror_allowed>>
countVars == <<created, updated, skipped, counted>>

NoCall == [op |-> "none", target |-> <<>>, props |-> EmptyMap]

\* the outcomes of one request to the remote service that are failures
Errors == {"transient", "permanent"}

\* the listing a query of db pages through
Listing(db) == IF newestFirst THEN Reverse(store[db]) ELSE store[db]

\* the locals of main() and the module state of a fresh process
FreshRun ==
    /\ pc = "access_master"
    /\ master_pages = <<>>
    /\ mirror_pages = <<>>
    /\ start_cursor = None
    /\ mirror_schema_types = EmptyMap
    /\ mirror_allowed = EmptyMap
    /\ mirror_index = EmptyMap
    /\ i = 0
    /\ created = 0
    /\ updated = 0
    /\ skipped = 0
    /\ counted = <<>>
    /\ missing_status_names = {}
    /\ call = NoCall
    /\ attempt = 0
    /\ lastError = "none"
    /\ failedAt = "none"
    /\ passed = {}
    /\ writes = <<>>
    /\ requests = NoRequests

Init ==
    /\ \E ms \in SeqsUpTo(MasterRecords, MaxPages),
          ts \in SeqsUpTo(MirrorTitles, MaxPages),
          sch \in MirrorSchemas :
          /\ Len(ms) + Len(ts) <= MaxPages
          /\ schema = sch
          /\ store = [db \in {MASTER_DB, MIRROR_DB} |->
                        IF db = MASTER_DB
                        THEN [k \in 1..Len(ms) |-> MasterPage(k, ms[k])]
                        ELSE [k \in 1..Len(ts) |-> MirrorPage(k, ts[k], sch)]]
    /\ newestFirst \in BOOLEAN
    /\ STATUS_MAP = EmptyMap
    /\ STATUS_FALLBACK = None
    /\ rerun = FALSE
    /\ mirrorAfterFirst = <<>>
    /\ FreshRun

\* ------------------------------------------------------------------------
\* main(), one action per step
\* ------------------------------------------------------------------------
\* the statement that follows a pre-loop step of main()
NextStep(step) ==
    CASE step = "access_master" -> "access_mirror"
      [] step = "access_mirror" -> "fetch_master"
      [] step = "fetch_master" -> "fetch_mirror"
      [] step = "fetch_mirror" -> "schema_types"
      [] step = "schema_types" -> "schema_options"
      [] step = "schema_options" -> "index"
      [] step = "index" -> "loop"

\* where main() is after a failed attempt of a call wrapped in @retry:
\* tenacity calls again until stop_after_attempt(5), then raises
AfterFailedAttempt(step, made) == IF made >= STOP_ATTEMPTS THEN "failed" ELSE step

\* a failed attempt of the wrapped call in flight
FailedAttempt(kind) ==
    /\ attempt' = attempt + 1
    /\ lastError' = kind
    /\ pc' = AfterFailedAttempt(pc, attempt + 1)
    /\ failedAt' = IF pc' = "failed" THEN pc ELSE failedAt

\* assert_db_access(master_db, ...) and assert_db_access(mirror_db, ...):
\* one databases.retrieve, any error leaves main()
AssertDbAccess ==
    /\ pc \in {"access_master", "access_mirror"}
    /\ \/ /\ pc' = NextStep(pc)
          /\ passed' = passed \cup {pc}
          /\ UNCHANGED <<lastError, failedAt>>
       \/ \E kind \in Errors :
             /\ pc' = "failed"
             /\ failedAt' = pc
             /\ lastError' = kind
             /\ UNCHANGED passed
    /\ UNCHANGED <<store, remoteVars, configVars, rerun, fetchVars, schemaVars,
                   mirror_index, i, countVars, missing_status_names, call,
                   attempt, writes, mirrorAfterFirst>>

\* variant of Accumulate: the response replaces what was fetched before
Accumulate_Replacing(pages, resp) == resp.results

\* pages.extend(resp.get("results", []))
Accumulate(pages, resp) == pages \o resp.results

\* start_cursor = resp.get("next_cursor")
CursorAfter(cursor, resp) == Some(resp.next_cursor)

\* one attempt of query_database inside get_all_pages, and the rest of the
\* loop body when it succeeds
QueryDatabase ==
    /\ pc \in {"fetch_master", "fetch_mirror"}
    /\ LET db == IF pc = "fetch_master" THEN MASTER_DB ELSE MIRROR_DB
           offset == IF start_cursor = None THEN 0 ELSE start_cursor[1]
           resp == QueryResponse(Listing(db), offset)
       IN  \/ /\ IF pc = "fetch_master"
                 THEN /\ master_pages' = Accumulate(master_pages, resp)
                      /\ UNCHANGED mirror_pages
                 ELSE /\ mirror_pages' = Accumulate(mirror_pages, resp)
                      /\ UNCHANGED master_pages
              /\ requests' = [requests EXCEPT ![db] =
                                Append(@, [cursor |-> start_cursor, resp |-> resp])]
              /\ IF resp.has_more
                 THEN /\ start_cursor' = CursorAfter(start_cursor, resp)
                      /\ UNCHANGED <<pc, passed>>
                 ELSE /\ start_cursor' = None
                      /\ pc' = NextStep(pc)
                      /\ passed' = passed \cup {pc}
              /\ attempt' = 0
              /\ lastError' = "none"
              /\ UNCHANGED failedAt
           \/ \E kind \in Errors :
                 /\ FailedAttempt(kind)
                 /\ UNCHANGED <<fetchVars, passed>>
    /\ UNCHANGED <<store, remoteVars, configVars, rerun, schemaVars, mirror_index,
                   i, countVars, missing_status_names, call, writes,
                   mirrorAfterFirst>>

\* mirror_schema_types = get_db_schema_types(mirror_db)
GetDbSchemaTypes ==
    /\ pc = "schema_types"
    /\ \/ /\ mirror_schema_types' = SchemaTypesOf(schema)
          /\ pc' = NextStep(pc)
          /\ passed' = passed \cup {pc}
          /\ UNCHANGED <<lastError, failedAt>>
       \/ \E kind \in Errors :
             /\ pc' = "failed"
             /\ failedAt' = pc
             /\ lastError' = kind
             /\ UNCHANGED <<mirror_schema_types, passed>>
    /\ UNCHANGED <<store, remoteVars, configVars, rerun, fetchVars, mirror_allowed,
                   mirror_index, i, countVars, missing_status_names, call,
                   attempt, writes, mirrorAfterFirst>>

\* variant of GetDbSchemaOptions: an error of the retrieve is swallowed and
\* main() goes on without the option names
GetDbSchemaOptions_ErrorSwallowed ==
    /\ pc = "schema_options"
    /\ \/ /\ mirror_allowed' = SchemaOptionsOf(schema)
          /\ pc' = NextStep(pc)
          /\ passed' = passed \cup {pc}
          /\ UNCHANGED <<lastError, failedAt>>
       \/ \E kind \in Errors :
             /\ pc' = NextStep(pc)
             /\ lastError' = kind
             /\ UNCHANGED <<mirror_allowed, passed, failedAt>>
    /\ UNCHANGED <<store, remoteVars, configVars, rerun, fetchVars,
                   mirror_schema_types, mirror_index, i, countVars,
                   missing_status_names, call, attempt, writes, mirrorAfterFirst>>

\* mirror_allowed = get_db_schema_options(mirror_db)
GetDbSchemaOptions ==
    /\ pc = "schema_options"
    /\ \/ /\ mirror_allowed' = SchemaOptionsOf(schema)
          /\ pc' = NextStep(pc)
          /\ passed' = passed \cup {pc}
          /\ UNCHANGED <<lastError, failedAt>>
       \/ \E kind \in Errors :
             /\ pc' = "failed"
             /\ failedAt' = pc
             /\ lastError' = kind
             /\ UNCHANGED <<mirror_allowed, passed>>
    /\ UNCHANGED <<store, remoteVars, configVars, rerun, fetchVars,
                   mirror_schema_types, mirror_index, i, countVars,
                   missing_status_names, call, attempt, writes, mirrorAfterFirst>>

\* variant of BuildIndex: the index is built over master_pages
BuildIndex_OverMaster ==
    /\ pc = "index"
    /\ mirror_index' = build_mirror_index_by_activity(master_pages)
    /\ pc' = NextStep(pc)
    /\ passed' = passed \cup {pc}
    /\ UNCHANGED <<store, remoteVars, configVars, rerun, fetchVars, schemaVars, i,
                   countVars, missing_status_names, call, attempt, lastError,
                   failedAt, writes, mirrorAfterFirst>>

\* mirror_index = build_mirror_index_by_activity(mirror_pages)
BuildIndex ==
    /\ pc = "index"
    /\ mirror_index' = build_mirror_index_by_activity(mirror_pages)
    /\ pc' = NextStep(pc)
    /\ passed' = passed \cup {pc}
    /\ UNCHANGED <<store, remoteVars, configVars, rerun, fetchVars, schemaVars, i,
                   countVars, missing_status_names, call, attempt, lastError,
                   failedAt, writes, mirrorAfterFirst>>

\* the Master page of the current iteration and what main() derives from it
Mp == master_pages[i + 1]
Activity == get_title_text(Mp, PROP_ACTIVITY)
MirrorProps ==
    extract_sync_properties_from_master(Mp, mirror_schema_types, mirror_allowed,
                                        STATUS_MAP, STATUS_FALLBACK)
Missing ==
    StatusMissing(Mp, mirror_schema_types, mirror_allowed, STATUS_MAP, STATUS_FALLBACK)

\* variant of Matched: the lookup key is not lower-cased
Matched_NoLower(activity) == activity \in DOMAIN mirror_index

\* mirror_index.get(activity.lower()) is truthy
Matched(activity) == Lower(activity) \in DOMAIN mirror_index

\* new_props = {PROP_ACTIVITY: to_title_property(activity)}; new_props.update(mirror_props)
NewProps(activity, mirror_props) ==
    DictUpdate([x \in {PROP_ACTIVITY} |-> to_title_property(activity)], mirror_props)

InLoop == pc = "loop" /\ i < Len(master_pages)

\* variant of HasProps: every payload counts as non-empty
HasProps_Always(mirror_props) == TRUE

\* if mirror_props: the truth value of a dict
HasProps(mirror_props) == mirror_props # EmptyMap

\* variant of Skip: the record is passed over without being counted
Skip_Uncounted ==
    /\ InLoop
    /\ Activity = <<>>
    /\ i' = i + 1
    /\ counted' = Append(counted, "skipped")
    /\ UNCHANGED <<store, remoteVars, configVars, pc, rerun, fetchVars, schemaVars,
                   mirror_index, created, updated, skipped, missing_status_names,
                   call, attempt, lastError, failedAt, passed, writes,
                   mirrorAfterFirst>>

\* if not activity: skipped += 1; continue
Skip ==
    /\ InLoop
    /\ Activity = <<>>
    /\ skipped' = skipped + 1
    /\ counted' = Append(counted, "skipped")
    /\ i' = i + 1
    /\ UNCHANGED <<store, remoteVars, configVars, pc, rerun, fetchVars, schemaVars,
                   mirror_index, created, updated, missing_status_names, call,
                   attempt, lastError, failedAt, passed, writes, mirrorAfterFirst>>

\* a match and an empty mirror_props: updated += 1 without a call
UpdateNoWrite ==
    /\ InLoop
    /\ Activity # <<>>
    /\ Matched(Activity)
    /\ ~HasProps(MirrorProps)
    /\ missing_status_names' = missing_status_names \cup Missing
    /\ updated' = updated + 1
    /\ counted' = Append(counted, "updated")
    /\ i' = i + 1
    /\ UNCHANGED <<store, remoteVars, configVars, pc, rerun, fetchVars, schemaVars,
                   mirror_index, created, skipped, call, attempt, lastError,
                   failedAt, passed, writes, mirrorAfterFirst>>

\* a match and a non-empty mirror_props: update_page(mirror_id, mirror_props) is called
StartUpdate ==
    /\ InLoop
    /\ Activity # <<>>
    /\ Matched(Activity)
    /\ HasProps(MirrorProps)
    /\ missing_status_names' = missing_status_names \cup Missing
    /\ call' = [op |-> "update", target |-> mirror_index[Lower(Activity)],
                props |-> MirrorProps]
    /\ writes' = Append(writes, [op |-> "update",
                                 target |-> mirror_index[Lower(Activity)],
                                 props |-> MirrorProps, src |-> i + 1])
    /\ pc' = "update"
    /\ attempt' = 0
    /\ UNCHANGED <<store, remoteVars, configVars, rerun, fetchVars, schemaVars,
                   mirror_index, i, countVars, lastError, failedAt, passed,
                   mirrorAfterFirst>>

\* no match: create_page(mirror_db, new_props) is called
StartCreate ==
    /\ InLoop
    /\ Activity # <<>>
    /\ ~Matched(Activity)
    /\ missing_status_names' = missing_status_names \cup Missing
    /\ call' = [op |-> "create", target |-> <<MIRROR_DB>>,
                props |-> NewProps(Activity, MirrorProps)]
    /\ writes' = Append(writes, [op |-> "create", target |-> <<MIRROR_DB>>,
                                 props |-> NewProps(Activity, MirrorProps),
                                 src |-> i + 1])
    /\ pc' = "create"
    /\ attempt' = 0
    /\ UNCHANGED <<store, remoteVars, configVars, rerun, fetchVars, schemaVars,
                   mirror_index, i, countVars, lastError, failedAt, passed,
                   mirrorAfterFirst>>

\* one attempt of update_page; on success updated += 1 and the loop goes on
UpdatePage ==
    /\ pc = "update"
    /\ \/ /\ RemoteAccepts(schema, call.props)
          /\ store' = RemoteUpdate(store, call.target, call.props)
          /\ updated' = updated + 1
          /\ counted' = Append(counted, "updated")
          /\ i' = i + 1
          /\ pc' = "loop"
          /\ call' = NoCall
          /\ attempt' = 0
          /\ lastError' = "none"
          /\ UNCHANGED failedAt
       \/ \E kind \in Errors :
             /\ FailedAttempt(kind)
             /\ UNCHANGED <<store, updated, i, call, counted>>
    /\ UNCHANGED <<remoteVars, configVars, rerun, fetchVars, schemaVars,
                   mirror_index, created, skipped, missing_status_names, passed,
                   writes, mirrorAfterFirst>>

\* one attempt of create_page; on success created += 1 and the loop goes on
CreatePage ==
    /\ pc = "create"
    /\ \/ /\ RemoteAccepts(schema, call.props)
          /\ store' = RemoteCreate(store, call.target[1], schema, call.props)
          /\ created' = created + 1
          /\ counted' = Append(counted, "created")
          /\ i' = i + 1
          /\ pc' = "loop"
          /\ call' = NoCall
          /\ attempt' = 0
          /\ lastError' = "none"
          /\ UNCHANGED failedAt
       \/ \E kind \in Errors :
             /\ FailedAttempt(kind)
             /\ UNCHANGED <<store, created, i, call, counted>>
    /\ UNCHANGED <<remoteVars, configVars, rerun, fetchVars, schemaVars,
                   mirror_index, updated, skipped, missing_status_names, passed,
                   writes, mirrorAfterFirst>>

\* the loop is exhausted: the warnings and the summary are printed
Finish ==
    /\ pc = "loop"
    /\ i = Len(master_pages)
    /\ pc' = "done"
    /\ passed' = passed \cup {"loop"}
    /\ mirrorAfterFirst' = IF rerun THEN mirrorAfterFirst ELSE store[MIRROR_DB]
    /\ UNCHANGED <<store, remoteVars, configVars, rerun, fetchVars, schemaVars,
                   mirror_index, i, countVars, missing_status_names, call,
                   attempt, lastError, failedAt, writes>>

\* the script is started again after a completed run, Master untouched
Rerun ==
    /\ pc = "done"
    /\ ~rerun
    /\ rerun' = TRUE
    /\ pc' = "access_master"
    /\ master_pages' = <<>>
    /\ mirror_pages' = <<>>
    /\ start_cursor' = None
    /\ mirror_schema_types' = EmptyMap
    /\ mirror_allowed' = EmptyMap
    /\ mirror_index' = EmptyMap
    /\ i' = 0
    /\ created' = 0
    /\ updated' = 0
    /\ skipped' = 0
    /\ counted' = <<>>
    /\ missing_status_names' = {}
    /\ call' = NoCall
    /\ attempt' = 0
    /\ lastError' = "none"
    /\ failedAt' = "none"
    /\ passed' = {}
    /\ writes' = <<>>
    /\ requests' = NoRequests
    /\ UNCHANGED <<store, remoteVars, configVars, mirrorAfterFirst>>

Next ==
    \/ AssertDbAccess
    \/ QueryDatabase
    \/ GetDbSchemaTypes
    \/ GetDbSchemaOptions
    \/ BuildIndex
    \/ Skip
    \/ UpdateNoWrite
    \/ StartUpdate
    \/ StartCreate
    \/ UpdatePage
    \/ CreatePage
    \/ Finish
    \/ Rerun

Spec == Init /\ [][Next]_vars

\* ------------------------------------------------------------------------
\* The mapper alone: extract_sync_properties_from_master applied to one
\* Master page, for every shape of one property, every Mirror declaration of
\* it and every configuration
\* ------------------------------------------------------------------------
MappedFields ==
    {PROP_STATUS, PROP_START_DATE, PROP_DUE_DATE, PROP_PRIORITY, PROP_RAISED_BY,
     PROP_ASSIGNED_TO}

\* the property objects a Master page may hold under a name, of the expected
\* variant or of another one, with a value, with none or with a null one
SourceProps ==
    { ChoiceProp("select", Some("Done")), ChoiceProp("select", Some("WIP")),
      ChoiceProp("status", Some("Unknown")), ChoiceProp("status", Some("In Progress")),
      ChoiceProp("select", None), ChoiceProp("select", Some("")),
      DateProp(<<"d1", "d2">>), DateProp(None),
      PeopleProp(<<>>), PeopleProp(<<User("Ann", "u1"), User("", "u2")>>),
      PeopleProp(<<User("", ""), User("Cy", "u3")>>), PeopleNull,
      [type |-> "rich_text", val |-> <<>>] }

\* the types the Mirror may declare for a name
DestTypes == {"select", "multi_select", "status", "date", "rich_text", "people"}

\* the rename tables, fallbacks and Status option lists of the mapper runs
StatusMaps ==
    { EmptyMap, [x \in {"WIP"} |-> "In Progress"], [x \in {"Done"} |-> "Closed"],
      [x \in {"Unknown"} |-> ""] }
StatusFallbacks == {None, Some("To Do"), Some("Nope"), Some("")}
StatusOptionSets ==
    { {}, {"Done", "In Progress"}, {"Done", "In Progress", "To Do"}, {"Done", ""} }

\* a Master page with nothing but a title
RecBare == [x \in {PROP_ACTIVITY} |-> TitleProp(<< <<"A", "b">> >>)]

\* d without the key k
DictDel(d, k) == [x \in (DOMAIN d) \ {k} |-> d[x]]

\* d with d[k] = o[1], or without k when o is None
DictPut(d, k, o) == IF o = None THEN DictDel(d, k) ELSE DictSet(d, k, o[1])

InitMap ==
    /\ \E f \in MappedFields,
          base \in {<<RecBare, SchemaTitleOnly>>, <<RecAb, SchemaFull>>, <<RecAbSpace, SchemaSelect>>},
          v \in {None} \cup {Some(x) : x \in SourceProps},
          t \in {None} \cup {Some(x) : x \in DestTypes},
          sm \in StatusMaps,
          fb \in StatusFallbacks,
          opts \in StatusOptionSets :
          /\ f # PROP_STATUS => (sm = EmptyMap /\ fb = None /\ opts = {})
          /\ master_pages = <<MasterPage(1, DictPut(base[1], f, v))>>
          /\ schema = DictPut(base[2], f,
                              IF t = None THEN None ELSE Some(DbProp(t[1], opts)))
          /\ STATUS_MAP = sm
          /\ STATUS_FALLBACK = fb
    /\ mirror_schema_types = SchemaTypesOf(schema)
    /\ mirror_allowed = SchemaOptionsOf(schema)
    /\ store = [db \in {MASTER_DB, MIRROR_DB} |->
                  IF db = MASTER_DB THEN master_pages ELSE <<>>]
    /\ newestFirst = FALSE
    /\ rerun = FALSE
    /\ mirrorAfterFirst = <<>>
    /\ pc = "map"
    /\ mirror_pages = <<>>
    /\ start_cursor = None
    /\ mirror_index = EmptyMap
    /\ i = 0
    /\ created = 0
    /\ updated = 0
    /\ skipped = 0
    /\ counted = <<>>
    /\ missing_status_names = {}
    /\ call = NoCall
    /\ attempt = 0
    /\ lastError = "none"
    /\ failedAt = "none"
    /\ passed = {}
    /\ writes = <<>>
    /\ requests = NoRequests

\* mirror_props = extract_sync_properties_from_master(mp, ...), with its
\* effect on missing_status_names; the Status block has run when the Assigned
\* To block raises
MapRecord ==
    /\ pc = "map"
    /\ missing_status_names' = missing_status_names \cup Missing
    /\ IF MapperRaises(Mp, mirror_schema_types)
       THEN /\ pc' = "raised"
            /\ UNCHANGED call
       ELSE /\ pc' = "mapped"
            /\ call' = [op |-> "map", target |-> <<>>, props |-> MirrorProps]
    /\ UNCHANGED <<store, remoteVars, configVars, rerun, fetchVars, schemaVars,
                   mirror_index, i, countVars, attempt, lastError, failedAt,
                   passed, writes, mirrorAfterFirst>>

NextMap == MapRecord

SpecMap == InitMap /\ [][NextMap]_vars

\* ------------------------------------------------------------------------
\* Vocabulary of the properties
\* ------------------------------------------------------------------------
\* the natural key of a page: its trimmed, lower-cased title
TitleKey(page) == Lower(get_title_text(page, PROP_ACTIVITY))

\* the loop has taken its decision for master_pages[k]
Decided(k) == k \in 1..Len(master_pages) /\ (k <= i \/ (k = i + 1 /\ call.op # "none"))

\* the positions in writes of the calls made for master_pages[k]
WritesFor(k) == {j \in 1..Len(writes) : writes[j].src = k}

\* the payload the mapper yields for master_pages[k] in this run
PayloadOf(k) ==
    extract_sync_properties_from_master(master_pages[k], mirror_schema_types,
                                        mirror_allowed, STATUS_MAP, STATUS_FALLBACK)

\* the fetched Mirror pages with a given non-empty key
MirrorMatches(key) == {j \in 1..Len(mirror_pages) : TitleKey(mirror_pages[j]) = key}

\* the last of them in fetch order
LastMatch(key) == CHOOSE j \in MirrorMatches(key) : \A h \in MirrorMatches(key) : h <= j

\* ------------------------------------------------------------------------
\* C1
\* ------------------------------------------------------------------------
\* C1 as stated: when a run has completed, every Master record with a
\* non-empty key has, for every fetched Mirror record with the same key, an
\* Update addressed to that Mirror record, and has no Create.
C1_UpdateToEveryMatch ==
    pc = "done" =>
        \A k \in 1..Len(master_pages) : \A m \in 1..Len(mirror_pages) :
            (TitleKey(master_pages[k]) # <<>>
             /\ TitleKey(master_pages[k]) = TitleKey(mirror_pages[m]))
            => /\ \E j \in WritesFor(k) :
                     writes[j].op = "update" /\ writes[j].target = mirror_pages[m].id
               /\ \A j \in WritesFor(k) : writes[j].op # "create"

\* C1 (amended): for every Master record the loop has decided whose trimmed,
\* lower-cased title is non-empty and is the key of some fetched Mirror
\* record, no Create is ever issued; when the mapped payload is non-empty
\* exactly one write is issued for it, an Update addressed to the identity of
\* the last fetched Mirror record with that key; when the mapped payload is
\* empty no write is issued for it. Titles that differ only in case or in
\* surrounding whitespace therefore resolve to the same Mirror record.
C1_MatchedRecordUpdatesIndexedMirror ==
    \A k \in 1..Len(master_pages) :
        (Decided(k)
         /\ TitleKey(master_pages[k]) # <<>>
         /\ MirrorMatches(TitleKey(master_pages[k])) # {})
        => /\ \A j \in WritesFor(k) :
                 /\ writes[j].op = "update"
                 /\ writes[j].target =
                        mirror_pages[LastMatch(TitleKey(master_pages[k]))].id
                 /\ writes[j].props = PayloadOf(k)
           /\ Cardinality(WritesFor(k)) = IF PayloadOf(k) = EmptyMap THEN 0 ELSE 1

\* C1 witness: a completed run issued an Update for a Master record whose
\* title text differs from the title text of the Mirror record it addressed
\* (they agree only after trimming and lower-casing), and an earlier Mirror
\* record with the same key was passed over.
C1_Witness ==
    /\ pc = "done"
    /\ \E j \in 1..Len(writes) : \E m \in 1..Len(mirror_pages) :
          /\ writes[j].op = "update"
          /\ writes[j].target = mirror_pages[m].id
          /\ Join(master_pages[writes[j].src].props[PROP_ACTIVITY].val)
                 # Join(mirror_pages[m].props[PROP_ACTIVITY].val)
          /\ \E h \in 1..(m - 1) : TitleKey(mirror_pages[h]) = TitleKey(mirror_pages[m])

C3_SecondRunChangesNothing ==
    (rerun /\ pc = "done") => store[MIRROR_DB] = mirrorAfterFirst

\* ------------------------------------------------------------------------
\* C4
\* ------------------------------------------------------------------------
\* every Create is addressed to the Mirror database and every Update to an
\* identity held by the Mirror index, which is no identity of a Master page
WritesAddressMirror ==
    \A j \in 1..Len(writes) :
        /\ writes[j].op = "create" => writes[j].target = <<MIRROR_DB>>
        /\ writes[j].op = "update" =>
               /\ \E key \in DOMAIN mirror_index : mirror_index[key] = writes[j].target
               /\ writes[j].target \in PageIds(store[MIRROR_DB])
               /\ writes[j].target \notin PageIds(store[MASTER_DB])

\* C4: no step of a run changes the Master pages, and after every step every
\* write issued so far is addressed to the Mirror (a Create to the Mirror
\* database, an Update to an identity taken from the Mirror index).
C4_MasterNeverWritten ==
    [][store'[MASTER_DB] = store[MASTER_DB] /\ WritesAddressMirror']_vars

\* C4 witness: a run has completed with a Create and an Update carried out
\* while the Master holds at least two pages.
C4_Witness ==
    /\ pc = "done"
    /\ created >= 1
    /\ updated >= 1
    /\ Len(store[MASTER_DB]) >= 2
    /\ \E j, h \in 1..Len(writes) : writes[j].op = "create" /\ writes[h].op = "update"

FragLabels(frag) == {frag.val[j] : j \in 1..Len(frag.val)}

\* C6: in the payload the mapper returns, every label written for a property
\* the Mirror declares as status is one of the option names fetched for that
\* property, whatever the source value, the rename table and the fallback.
C6_StatusLabelsAllowed ==
    pc = "mapped" =>
        \A f \in DOMAIN call.props :
            (f \in DOMAIN mirror_schema_types /\ mirror_schema_types[f] = "status")
            => /\ call.props[f].kind = "status"
               /\ FragLabels(call.props[f]) \subseteq mirror_allowed[f]

\* C6 witness: the mapper wrote a Status label into a status property that is
\* not the label of the source: it comes from the rename table or the fallback.
C6_Witness ==
    /\ pc = "mapped"
    /\ PROP_STATUS \in DOMAIN call.props
    /\ call.props[PROP_STATUS].kind = "status"
    /\ call.props[PROP_STATUS].val # <<>>
    /\ call.props[PROP_STATUS].val
           # read_choice_name(prop_or_none(master_pages[1], PROP_STATUS))
    /\ STATUS_FALLBACK # None
    /\ STATUS_MAP # EmptyMap

\* ------------------------------------------------------------------------
\* C7
\* ------------------------------------------------------------------------
\* the Status label of master_pages[k], None when it has none
SourceStatus(k) == read_choice_name(prop_or_none(master_pages[k], PROP_STATUS))

\* the Mirror declares Status as a status property
MirrorStatusIsStatus ==
    PROP_STATUS \in DOMAIN mirror_schema_types /\ mirror_schema_types[PROP_STATUS] = "status"

\* master_pages[k] has been mapped and carries a label the Mirror does not allow
Offending(k) ==
    /\ Decided(k)
    /\ get_title_text(master_pages[k], PROP_ACTIVITY) # <<>>
    /\ MirrorStatusIsStatus
    /\ SourceStatus(k) # None
    /\ SourceStatus(k)[1] \notin StatusAllowed(mirror_allowed)

\* C7: with no rename and no fallback configured, every mapped Master record
\* whose Status label is not allowed by a status-typed Mirror Status gets one
\* write whose payload clears Status (the run goes on), and the warning set
\* is exactly the set of the offending labels met so far: each once, however
\* many records carry it, and never an allowed label.
C7_UnknownStatusClearedAndWarned ==
    (STATUS_MAP = EmptyMap /\ STATUS_FALLBACK = None) =>
        /\ \A k \in 1..Len(master_pages) :
              Offending(k) =>
                  /\ Cardinality(WritesFor(k)) = 1
                  /\ \A j \in WritesFor(k) :
                        /\ PROP_STATUS \in DOMAIN writes[j].props
                        /\ writes[j].props[PROP_STATUS] = Frag("status", None)
        /\ missing_status_names =
               {SourceStatus(k)[1] : k \in {h \in 1..Len(master_pages) : Offending(h)}}
        /\ missing_status_names \cap StatusAllowed(mirror_allowed) = {}

\* C7 witness: a run has completed in which two Master records carried the
\* same label that the Mirror does not allow, a third carried an allowed one,
\* and the warning set holds the one offending label.
C7_Witness ==
    /\ pc = "done"
    /\ STATUS_MAP = EmptyMap
    /\ STATUS_FALLBACK = None
    /\ missing_status_names = {"Unknown"}
    /\ \E k, h, g \in 1..Len(master_pages) :
          /\ k # h
          /\ Offending(k)
          /\ Offending(h)
          /\ SourceStatus(k) = SourceStatus(h)
          /\ Decided(g)
          /\ SourceStatus(g) = Some("Done")

\* ------------------------------------------------------------------------
\* C8
\* ------------------------------------------------------------------------
\* C8: when the latest attempt of a remote call failed with a non-retryable
\* error, the call is over and its error has left main(): no further attempt
\* of that call is pending.
C8_NonRetryableErrorPropagatesAtOnce ==
    lastError = "permanent" => pc = "failed"

\* ------------------------------------------------------------------------
\* C9
\* ------------------------------------------------------------------------
\* C9: a create_page or update_page whose retries are exhausted never ends
\* the run: main() is never left by an exception of a write.
C9_WriteFailureDoesNotAbortRun ==
    pc = "failed" => failedAt \notin {"create", "update"}

\* ------------------------------------------------------------------------
\* C10
\* ------------------------------------------------------------------------
PreLoopSteps ==
    {"access_master", "access_mirror", "fetch_master", "fetch_mirror",
     "schema_types", "schema_options"}

\* C10: a Create or Update is issued only after both access checks, both
\* fetches and both schema retrievals of the run have succeeded, the fetches
\* having returned every page of their database; and a run that an error of
\* one of these steps has ended has issued no write and counted nothing.
C10_NoWriteBeforePreflight ==
    /\ (writes # <<>> \/ call.op \in {"create", "update"}) =>
           /\ PreLoopSteps \subseteq passed
           /\ master_pages = Listing(MASTER_DB)
    /\ ("fetch_mirror" \in passed /\ created = 0 /\ updated = 0) =>
           mirror_pages = Listing(MIRROR_DB)
    /\ (pc = "failed" /\ failedAt \in PreLoopSteps) =>
           /\ writes = <<>>
           /\ call = NoCall
           /\ created = 0
           /\ updated = 0
           /\ i = 0

\* C10 witness: the option retrieval, the last step before the loop, failed
\* after the fetch returned a Master record with a title: the run is over and
\* has written nothing.
C10_Witness ==
    /\ pc = "failed"
    /\ failedAt = "schema_options"
    /\ writes = <<>>
    /\ \E k \in 1..Len(master_pages) : get_title_text(master_pages[k], PROP_ACTIVITY) # <<>>

\* ------------------------------------------------------------------------
\* get_all_pages
\* ------------------------------------------------------------------------
RECURSIVE ResultsOf(_)
\* the records of the answered queries, in the order of the responses
ResultsOf(rs) == IF rs = <<>> THEN <<>> ELSE ResultsOf(SubSeq(rs, 1, Len(rs) - 1)) \o rs[Len(rs)].resp.results

\* the pages get_all_pages has accumulated for a database
PagesOf(db) == IF db = MASTER_DB THEN master_pages ELSE mirror_pages

\* the step of main() that fetches a database
FetchStep(db) == IF db = MASTER_DB THEN "fetch_master" ELSE "fetch_mirror"

\* C11: get_all_pages sends its first query without a cursor and every later
\* query with the cursor of the response before it, which announced more
\* pages; it stops at the first response that announces no more pages, after
\* at most one query per page of the database; what it holds is the records
\* of the responses, concatenated in response order; and when it has returned,
\* which is before the index is built, it holds every record of the database.
C11_FetchAllFollowsCursorChain ==
    \A db \in {MASTER_DB, MIRROR_DB} :
        LET rs == requests[db]
        IN  /\ rs # <<>> => rs[1].cursor = None
            /\ \A k \in 2..Len(rs) :
                  /\ rs[k - 1].resp.has_more
                  /\ rs[k].cursor = Some(rs[k - 1].resp.next_cursor)
            /\ PagesOf(db) = ResultsOf(rs)
            /\ (Len(rs) - 1) * PageSize <= Len(store[db])
            /\ (FetchStep(db) \in passed) =>
                  /\ rs # <<>>
                  /\ ~rs[Len(rs)].resp.has_more
            /\ (rs # <<>> /\ pc = FetchStep(db)) => rs[Len(rs)].resp.has_more
            /\ (FetchStep(db) \in passed /\ writes = <<>> /\ call = NoCall) =>
                  /\ PagesOf(db) = Listing(db)
                  /\ \A k \in 1..Len(store[db]) :
                        \E j \in 1..Len(PagesOf(db)) : PagesOf(db)[j] = store[db][k]
            /\ (pc = "index") => FetchStep(db) \in passed

\* C11 witness: the Mirror fetch took two cursor-chained queries, and the
\* index is about to be built over the records of both pages.
C11_Witness ==
    /\ pc = "index"
    /\ Len(requests[MIRROR_DB]) = 2
    /\ requests[MIRROR_DB][2].cursor # None
    /\ Len(mirror_pages) = PageSize + 1

\* ------------------------------------------------------------------------
\* C12
\* ------------------------------------------------------------------------
\* C12: the mapper never ends in an error: whatever the Master page holds
\* under a mapped name (nothing, a null value, another variant, malformed
\* contents) and whatever the Mirror declares, the call returns a payload.
C12_MapperNeverRaises == pc # "raised"

\* ------------------------------------------------------------------------
\* C13
\* ------------------------------------------------------------------------
\* the page has no title text but white space
TitleIsBlank(page) ==
    \/ PROP_ACTIVITY \notin DOMAIN page.props
    \/ page.props[PROP_ACTIVITY].type # "title"
    \/ LET text == Join(page.props[PROP_ACTIVITY].val)
       IN  \A c \in 1..Len(text) : IsSpace(text[c])

\* C13: every iteration that has ended has incremented one counter; it
\* counted its record as Skipped if and only if the record's Title, trimmed,
\* is empty, and then no Create and no Update was issued for the record; a
\* record with a non-empty Title was counted as Created or as Updated; the
\* counter Skipped is the number of records counted so; and a run that has
\* completed has counted every Master record.
C13_SkippedIffTitleEmpty ==
    /\ Len(counted) = i
    /\ \A k \in 1..Len(counted) :
          /\ counted[k] = "skipped" <=> TitleIsBlank(master_pages[k])
          /\ counted[k] = "skipped" => WritesFor(k) = {}
          /\ ~TitleIsBlank(master_pages[k]) => counted[k] \in {"created", "updated"}
    /\ skipped = Cardinality({k \in 1..Len(counted) : counted[k] = "skipped"})
    /\ pc = "done" => Len(counted) = Len(master_pages)

\* C13 witness: a completed run skipped a record whose title is white space
\* only and counted another record, which has a title, as Created or Updated.
C13_Witness ==
    /\ pc = "done"
    /\ \E k, j \in 1..Len(counted) :
          /\ counted[k] = "skipped"
          /\ Join(master_pages[k].props[PROP_ACTIVITY].val) # <<>>
          /\ counted[j] # "skipped"

\* ------------------------------------------------------------------------
\* C14
\* ------------------------------------------------------------------------
\* the label after the rename table
Renamed(label, status_map) == IF label \in DOMAIN status_map THEN status_map[label] ELSE label

\* the stated rule for a status destination: the label to write (None to
\* clear) and whether the warning set receives a label
StatedStatusRule(label, status_map, status_fallback, allowed) ==
    IF ~Truthy(label) THEN [val |-> None, warns |-> FALSE]
    ELSE IF label[1] \in allowed THEN [val |-> label, warns |-> FALSE]
    ELSE IF Renamed(label[1], status_map) \in allowed
    THEN [val |-> Some(Renamed(label[1], status_map)), warns |-> FALSE]
    ELSE IF status_fallback # None /\ status_fallback[1] \in allowed
    THEN [val |-> status_fallback, warns |-> FALSE]
    ELSE [val |-> None, warns |-> TRUE]

\* C14: for a Mirror that declares Status as a status property, the payload
\* of a mapped Master page follows the stated rule: a non-empty label that is
\* allowed is written unchanged; only a non-empty label that is not allowed
\* goes through the rename table, then the fallback, and is otherwise cleared
\* with the offending label (as read or as renamed) put in the warning set; an
\* empty or missing label clears the field and records no warning.
C14_StatusFollowsStatedRule ==
    (pc = "mapped" /\ MirrorStatusIsStatus) =>
        LET label == SourceStatus(1)
            rule == StatedStatusRule(label, STATUS_MAP, STATUS_FALLBACK,
                                     StatusAllowed(mirror_allowed))
        IN  /\ PROP_STATUS \in DOMAIN call.props
            /\ call.props[PROP_STATUS] = Frag("status", rule.val)
            /\ rule.warns <=> missing_status_names # {}
            /\ rule.warns =>
                  missing_status_names \subseteq {label[1], Renamed(label[1], STATUS_MAP)}

\* ------------------------------------------------------------------------
\* C15
\* ------------------------------------------------------------------------
\* master_pages[k] has a title whose key the index of this run holds
MatchedRecord(k) ==
    /\ get_title_text(master_pages[k], PROP_ACTIVITY) # <<>>
    /\ TitleKey(master_pages[k]) \in DOMAIN mirror_index

\* the page a call addresses, as the store holds it
StoredPage(page_id) ==
    CHOOSE p \in {store[MIRROR_DB][j] : j \in 1..Len(store[MIRROR_DB])} : p.id = page_id

\* C15: for a Master record that matches a Mirror record, the loop issues an
\* Update when the mapped payload is non-empty, whatever the Mirror record
\* holds, and nothing when it is empty: one Update with the payload, addressed
\* to the indexed identity, or no write at all; and when its iteration has
\* ended, the record has been counted as Updated in both cases.
C15_UpdateIffPayloadNonEmpty ==
    \A k \in 1..Len(master_pages) :
        (Decided(k) /\ MatchedRecord(k)) =>
            /\ PayloadOf(k) # EmptyMap =>
                  /\ Cardinality(WritesFor(k)) = 1
                  /\ \A j \in WritesFor(k) :
                        /\ writes[j].op = "update"
                        /\ writes[j].target = mirror_index[TitleKey(master_pages[k])]
                        /\ writes[j].props = PayloadOf(k)
            /\ PayloadOf(k) = EmptyMap => WritesFor(k) = {}
            /\ k <= Len(counted) => counted[k] = "updated"

\* C15 witness: an Update is in flight whose payload is non-empty and holds,
\* for every property, the value the addressed Mirror record already has.
C15_Witness ==
    /\ pc = "update"
    /\ call.op = "update"
    /\ call.props # EmptyMap
    /\ \A f \in DOMAIN call.props :
          /\ f \in DOMAIN StoredPage(call.target).props
          /\ StoredPage(call.target).props[f] = StoredProp(call.props[f])

\* ------------------------------------------------------------------------
\* C16
\* ------------------------------------------------------------------------
\* the steps of main() that are one of the remote calls named: a page fetch,
\* a schema fetch, a create, an update
RemoteCallSteps ==
    {"fetch_master", "fetch_mirror", "schema_types", "schema_options", "create", "update"}

\* C16: every page fetch, schema fetch, create and update is retried: no call
\* is attempted more than 5 times, and a transient failure of such a call
\* leaves main() only as the failure of the 5th attempt.
C16_EveryRemoteCallRetried ==
    /\ attempt <= STOP_ATTEMPTS
    /\ (pc = "failed" /\ failedAt \in RemoteCallSteps /\ lastError = "transient") =>
           attempt = STOP_ATTEMPTS

\* ------------------------------------------------------------------------
\* C17
\* ------------------------------------------------------------------------
\* the date fields
DateFields == {PROP_START_DATE, PROP_DUE_DATE}

\* the Master page holds a date property with a start/end pair under name
HasDateValue(page, name) ==
    /\ name \in DOMAIN page.props
    /\ page.props[name].type = "date"
    /\ page.props[name].val # None

\* C17: in the payload of a mapped Master page, a date field the Mirror
\* declares as date carries the start/end pair of the source unchanged when
\* the source has one; the key of the field is absent when the Mirror does not
\* declare the field or the source has no date value.
C17_DatesPassThroughOrOmitted ==
    pc = "mapped" =>
        \A f \in DateFields :
            /\ (f \in DOMAIN mirror_schema_types /\ mirror_schema_types[f] = "date"
                  /\ HasDateValue(master_pages[1], f)) =>
                   /\ f \in DOMAIN call.props
                   /\ call.props[f] = Frag("date", master_pages[1].props[f].val)
            /\ (f \notin DOMAIN mirror_schema_types \/ ~HasDateValue(master_pages[1], f)) =>
                   f \notin DOMAIN call.props

\* ------------------------------------------------------------------------
\* C18
\* ------------------------------------------------------------------------
\* the title text of a page, trimmed and case-folded, character by character
FoldedTitle(page) ==
    LET text == Strip(Join(page.props[PROP_ACTIVITY].val))
    IN  [c \in 1..Len(text) |-> LowerChar(text[c])]

\* the fetched Mirror pages that have a title text
Indexable == {j \in 1..Len(mirror_pages) : ~TitleIsBlank(mirror_pages[j])}

\* C18: once the index is built, its keys are the trimmed, case-folded titles
\* of the fetched Mirror pages that have one, a page without title text being
\* left out; each key maps to the identity of the last page in fetch order
\* with that key; and no Update is addressed to an earlier page with the key
\* of a later one.
C18_IndexKeepsLastOfEachKey ==
    "index" \in passed =>
        /\ DOMAIN mirror_index = {FoldedTitle(mirror_pages[j]) : j \in Indexable}
        /\ <<>> \notin DOMAIN mirror_index
        /\ \A j \in Indexable :
              LET same == {h \in Indexable :
                             FoldedTitle(mirror_pages[h]) = FoldedTitle(mirror_pages[j])}
              IN  /\ (\A h \in same : h <= j) =>
                         mirror_index[FoldedTitle(mirror_pages[j])] = mirror_pages[j].id
                  /\ (\E h \in same : h > j) =>
                         /\ mirror_index[FoldedTitle(mirror_pages[j])] # mirror_pages[j].id
                         /\ \A w \in 1..Len(writes) :
                               writes[w].op = "update" => writes[w].target # mirror_pages[j].id

\* C18 witness: two fetched Mirror pages with different titles have the same
\* key, and an Update has been issued, addressed to the later one.
C18_Witness ==
    /\ "index" \in passed
    /\ \E j, h \in Indexable :
          /\ j < h
          /\ FoldedTitle(mirror_pages[j]) = FoldedTitle(mirror_pages[h])
          /\ mirror_pages[j].props[PROP_ACTIVITY] # mirror_pages[h].props[PROP_ACTIVITY]
          /\ \E w \in 1..Len(writes) :
                writes[w].op = "update" /\ writes[w].target = mirror_pages[h].id

\* ------------------------------------------------------------------------
\* C19
\* ------------------------------------------------------------------------
\* the persons of the Assigned To property of a page, in source order; none
\* when the property is missing or not a people property
AssignedPeople(page) ==
    IF PROP_ASSIGNED_TO \in DOMAIN page.props /\ page.props[PROP_ASSIGNED_TO].type = "people"
    THEN page.props[PROP_ASSIGNED_TO].val
    ELSE <<>>

\* a person has a name or an identifier
Labelled(u) == u.name # "" \/ u.id # ""

\* the name of each person that has one, else the identifier, in source order
PersonLabels(us) ==
    LET known == SelectSeq(us, Labelled)
    IN  [k \in 1..Len(known) |-> IF known[k].name # "" THEN known[k].name ELSE known[k].id]

\* C19: in the payload of a mapped Master page, an Assigned To that the
\* Mirror declares as multi_select is the list of the persons' labels (the
\* name, or the identifier when there is no name) in source order, empty when
\* there are no people; one that the Mirror declares as select is the first
\* of these labels, and is cleared when there are no people.
C19_PeopleMappedToLabels ==
    (pc = "mapped" /\ PROP_ASSIGNED_TO \in DOMAIN mirror_schema_types) =>
        LET labels == PersonLabels(AssignedPeople(master_pages[1]))
            mt == mirror_schema_types[PROP_ASSIGNED_TO]
        IN  /\ mt = "multi_select" =>
                  /\ PROP_ASSIGNED_TO \in DOMAIN call.props
                  /\ call.props[PROP_ASSIGNED_TO] = Frag("multi_select", labels)
            /\ mt = "select" =>
                  /\ PROP_ASSIGNED_TO \in DOMAIN call.props
                  /\ call.props[PROP_ASSIGNED_TO] =
                         Frag("select", IF labels = <<>> THEN None ELSE Some(labels[1]))

\* C19 witness: a page assigned to a person with a name and to one with an
\* identifier only has been mapped for a multi_select Assigned To, and the
\* payload lists the name and the identifier in that order.
C19_Witness ==
    /\ pc = "mapped"
    /\ PROP_ASSIGNED_TO \in DOMAIN mirror_schema_types
    /\ mirror_schema_types[PROP_ASSIGNED_TO] = "multi_select"
    /\ AssignedPeople(master_pages[1]) = <<User("Ann", "u1"), User("", "u2")>>
    /\ call.props[PROP_ASSIGNED_TO] = Frag("multi_select", <<"Ann", "u2">>)

\* ------------------------------------------------------------------------
\* C20
\* ------------------------------------------------------------------------
\* the calls of one kind issued so far in this run
Issued(op) == {j \in 1..Len(writes) : writes[j].op = op}

\* main() is between two iterations of its loop, or has left it normally
BetweenIterations == pc \in {"loop", "done"}

\* C20: the three counters add up to the number of Master records whose
\* iteration has ended, which is every Master record when the run completes;
\* between iterations the Create calls issued are as many as created and the
\* Update calls issued are at most updated; records are taken one after
\* another in fetch order, each getting at most one write, and no write is
\* issued for a record before the iterations of all earlier records ended.
C20_CountersAccountForRecords ==
    /\ created + updated + skipped = i
    /\ i <= Len(master_pages)
    /\ created = Cardinality({k \in 1..Len(counted) : counted[k] = "created"})
    /\ updated = Cardinality({k \in 1..Len(counted) : counted[k] = "updated"})
    /\ pc = "done" => created + updated + skipped = Len(master_pages)
    /\ BetweenIterations =>
           /\ Cardinality(Issued("create")) = created
           /\ Cardinality(Issued("update")) <= updated
    /\ \A j \in 1..Len(writes) :
           /\ writes[j].src \in 1..(i + 1)
           /\ writes[j].src = i + 1 => pc \in {"create", "update", "failed"}
           /\ \A h \in 1..Len(writes) : j < h => writes[j].src < writes[h].src
    /\ \A k \in 1..Len(master_pages) : Cardinality(WritesFor(k)) <= 1

\* C20 witness: a completed run over at least three Master records counted
\* more updated records than it issued Update calls, and counted a created or
\* a skipped record as well.
C20_Witness ==
    /\ pc = "done"
    /\ Len(master_pages) >= 3
    /\ created + skipped >= 1
    /\ updated >= 1
    /\ Cardinality(Issued("update")) < updated

====
